---- MODULE Spec2Model ----
(***************************************************************************)
(* Model of md_to_notion.py (Markdown -> Notion uploader) and of the       *)
(* credential loading of gpt.py.                                           *)
(*                                                                         *)
(* Strings are sequences of one-character strings.  An Optional value is   *)
(* a sequence of length 0 (None) or 1 (the value).                         *)
(***************************************************************************)
EXTENDS Integers, Sequences, FiniteSets, TLC

VARIABLES
    \* MarkdownParser.parse_and_upload
    lines,              \* f.readlines(): the raw lines of the file
    pos,                \* number of lines the for loop has consumed
    pc,                 \* "idle" | "loop" | "done" | "raised"
    current_equation,   \* None or the list of buffered lines
    submitted,          \* calls received by NotionClient.create_block
    log,                \* what the run printed
    \* MarkdownParser.process_text_block
    line,               \* the argument
    last_end,           \* offset of the end of the last match
    parts,              \* the spans built so far
    tpc,                \* "idle" | "scan" | "returned"
    \* start-up of the two tools
    environ,            \* os.environ restricted to the credentials
    upc,                \* uploader main(): "idle" | "start" | "notion_ok" | "ready" | "fatal"
    gpc,                \* chat tool module: "idle" | "import" | "loaded" | "fatal"
    keys,               \* the credentials the tools hold
    requests            \* credentials carried by the requests issued

parser_vars == <<lines, pos, pc, current_equation, submitted, log>>
text_vars   == <<line, last_end, parts, tpc>>
env_vars    == <<environ, upc, gpc, keys, requests>>
vars        == <<lines, pos, pc, current_equation, submitted, log,
                 line, last_end, parts, tpc,
                 environ, upc, gpc, keys, requests>>

----------------------------------------------------------------------------
(* Bounds *)

MaxLen == 8       \* longest line given to process_text_block
MaxLines == 3     \* longest file given to parse_and_upload

----------------------------------------------------------------------------
(* Python values and str methods *)

None == <<>>
Some(x) == <<x>>

Whitespace == {" ", "\t", "\n"}

Min(a, b) == IF a < b THEN a ELSE b

\* s[a:b] with 0 <= a, 0 <= b (offsets clamp to the length)
Slice(s, a, b) ==
    LET lo == Min(a, Len(s))
        hi == Min(b, Len(s))
    IN  IF lo >= hi THEN <<>> ELSE SubSeq(s, lo + 1, hi)

\* s[a:]
SliceFrom(s, a) == Slice(s, a, Len(s))

\* number of leading whitespace characters of s, counted from offset i
RECURSIVE LeadingSpace(_, _)
LeadingSpace(s, i) ==
    IF i < Len(s) /\ s[i + 1] \in Whitespace THEN LeadingSpace(s, i + 1) ELSE i

\* offset after the last character of s[:j] that is not whitespace
RECURSIVE TrailingSpace(_, _)
TrailingSpace(s, j) ==
    IF j > 0 /\ s[j] \in Whitespace THEN TrailingSpace(s, j - 1) ELSE j

lstrip(s) == SliceFrom(s, LeadingSpace(s, 0))
rstrip(s) == Slice(s, 0, TrailingSpace(s, Len(s)))
strip(s) == rstrip(lstrip(s))

startswith(s, p) == Len(s) >= Len(p) /\ SubSeq(s, 1, Len(p)) = p
endswith(s, p) == Len(s) >= Len(p) /\ SubSeq(s, Len(s) - Len(p) + 1, Len(s)) = p

\* s.split()[0] of a string that is not blank: the first run of non-whitespace
RECURSIVE TokenEnd(_, _)
TokenEnd(s, i) ==
    IF i < Len(s) /\ s[i + 1] \notin Whitespace THEN TokenEnd(s, i + 1) ELSE i

split0(s) == Slice(s, LeadingSpace(s, 0), TokenEnd(s, LeadingSpace(s, 0)))

\* sep.join(list)
RECURSIVE join(_, _)
join(sep, list) ==
    IF list = <<>> THEN <<>>
    ELSE IF Len(list) = 1 THEN list[1]
    ELSE list[1] \o sep \o join(sep, Tail(list))

\* s.find(tok, from): least offset k >= from with s[k:k+len(tok)] = tok, else -1
RECURSIVE find(_, _, _)
find(s, tok, from) ==
    IF from + Len(tok) > Len(s) THEN -1
    ELSE IF SubSeq(s, from + 1, from + Len(tok)) = tok THEN from
    ELSE find(s, tok, from + 1)

----------------------------------------------------------------------------
\* The span pattern of process_text_block: three lazy alternatives, tried in
\* order: two dollars .. two dollars, one dollar .. one dollar, two stars .. two stars.

DD == <<"$", "$">>
D  == <<"$">>
SS == <<"*", "*">>

\* open .*? close  matched at offset i: the offset after the match, or -1.
\* The lazy .*? stops at the first close it can reach; "." matches no newline.
Delimited(s, i, open, close) ==
    IF Slice(s, i, i + Len(open)) # open THEN -1
    ELSE LET k == find(s, close, i + Len(open))
         IN  IF k = -1 THEN -1
             ELSE IF \E j \in i + Len(open) + 1 .. k : s[j] = "\n" THEN -1
             ELSE k + Len(close)

\* The alternation tried at offset i, alternatives in order: <<alternative, end>>
MatchAt(s, i) ==
    LET e1 == Delimited(s, i, DD, DD)
        e2 == Delimited(s, i, D, D)
        e3 == Delimited(s, i, SS, SS)
    IN  IF e1 # -1 THEN <<1, e1>>
        ELSE IF e2 # -1 THEN <<2, e2>>
        ELSE IF e3 # -1 THEN <<3, e3>>
        ELSE <<0, -1>>

\* The next match of pattern.finditer(s) at or after offset from:
\* [alt, start, end], alt = 0 when there is none.
RECURSIVE NextMatch(_, _)
NextMatch(s, from) ==
    IF from >= Len(s) THEN [alt |-> 0, start |-> Len(s), end |-> Len(s)]
    ELSE LET m == MatchAt(s, from)
         IN  IF m[1] # 0 THEN [alt |-> m[1], start |-> from, end |-> m[2]]
             ELSE NextMatch(s, from + 1)

----------------------------------------------------------------------------
(* MarkdownParser.process_text_block *)

PlainSpan(content) == [type |-> "text", content |-> content, bold |-> FALSE]
BoldSpan(content) == [type |-> "text", content |-> content, bold |-> TRUE]
EquationSpan(expression) == [type |-> "equation", expression |-> expression]

\* lines 123-127: the text between the previous match and this one
GapSpans(s, le, m) ==
    IF m.start > le THEN <<PlainSpan(Slice(s, le, m.start))>> ELSE <<>>

\* lines 129-145: the span of one match
MatchSpans(content) ==
    IF startswith(content, DD) /\ endswith(content, DD)
    THEN <<PlainSpan(content)>>
    ELSE IF startswith(content, D) /\ endswith(content, D)
    THEN <<EquationSpan(Slice(content, 1, Len(content) - 1))>>
    ELSE IF startswith(content, SS) /\ endswith(content, SS)
    THEN <<BoldSpan(Slice(content, 2, Len(content) - 2))>>
    ELSE <<>>

\* Mutant of TailSpans: the text after the last match is forgotten
TailSpans_Dropped(s, le) == <<>>

\* lines 149-153: the text after the last match
TailSpans(s, le) ==
    IF le < Len(s) THEN <<PlainSpan(SliceFrom(s, le))>> ELSE <<>>

\* one iteration of the for loop over the matches
LoopBody(s, le, ps, m) ==
    ps \o GapSpans(s, le, m) \o MatchSpans(Slice(s, m.start, m.end))

RECURSIVE ScanFrom(_, _, _)
ScanFrom(s, le, ps) ==
    LET m == NextMatch(s, le)
    IN  IF m.alt = 0
        THEN ps \o TailSpans(s, le)
        ELSE ScanFrom(s, m.end, LoopBody(s, le, ps, m))

process_text_block(s) == ScanFrom(s, 0, <<>>)

\* The function run step by step, on every line parse_and_upload can pass to it
TextAlphabet == {"$", "*", "a"}

\* lines 166 and 180: a paragraph line is not empty and is not the delimiter
IsParagraphInput(s) == s # <<>> /\ s # DD

TextLines == {s \in UNION {[1 .. n -> TextAlphabet] : n \in 0 .. MaxLen} : IsParagraphInput(s)}

TextIdle ==
    /\ line = <<>>
    /\ last_end = 0
    /\ parts = <<>>
    /\ tpc = "idle"

TextInit ==
    /\ line \in TextLines
    /\ last_end = 0
    /\ parts = <<>>
    /\ tpc = "scan"

TextMatch ==
    /\ tpc = "scan"
    /\ NextMatch(line, last_end).alt # 0
    /\ parts' = LoopBody(line, last_end, parts, NextMatch(line, last_end))
    /\ last_end' = NextMatch(line, last_end).end
    /\ UNCHANGED <<line, tpc>>
    /\ UNCHANGED <<parser_vars, env_vars>>

TextReturn ==
    /\ tpc = "scan"
    /\ NextMatch(line, last_end).alt = 0
    /\ parts' = parts \o TailSpans(line, last_end)
    /\ tpc' = "returned"
    /\ UNCHANGED <<line, last_end>>
    /\ UNCHANGED <<parser_vars, env_vars>>

----------------------------------------------------------------------------
(* NotionBlockFactory *)

create_text_block(text, block_type) ==
    [object |-> "block", type |-> block_type, rich_text |-> <<PlainSpan(text)>>]

create_rich_text_block(rich_text_parts) ==
    [object |-> "block", type |-> "paragraph", rich_text |-> rich_text_parts]

create_image_block(url) ==
    [object |-> "block", type |-> "image", url |-> url]

create_equation_block(equation) ==
    [object |-> "block", type |-> "equation", expression |-> equation]

----------------------------------------------------------------------------
(* NotionClient.create_block and ImageUploader *)

\* What requests.patch can do: answer 2xx, answer an error status, or raise
Responses == {"ok", "http_error", "exception"}

\* Mutant of create_block: a request answered with an error status is sent again
create_block_Retry(sub, lg, block_data, response) ==
    [submitted |-> IF response = "http_error"
                   THEN sub \o <<[block |-> block_data, response |-> response],
                                 [block |-> block_data, response |-> response]>>
                   ELSE Append(sub, [block |-> block_data, response |-> response]),
     log       |-> IF response = "http_error" THEN Append(lg, "create_block_failed") ELSE lg,
     raised    |-> response = "exception"]

\* Mutant of create_block: the block is put before those already submitted
create_block_Prepends(sub, lg, block_data, response) ==
    [submitted |-> <<[block |-> block_data, response |-> response]>> \o sub,
     log       |-> IF response = "http_error" THEN Append(lg, "create_block_failed") ELSE lg,
     raised    |-> response = "exception"]

\* The call create_block(block_data) on a run that has submitted sub and
\* printed lg, when the request ends as response.  An error status is printed
\* and answered with False, which no caller reads.  There is no try around
\* requests.patch: an exception leaves create_block and its caller.
create_block(sub, lg, block_data, response) ==
    [submitted |-> Append(sub, [block |-> block_data, response |-> response]),
     log       |-> IF response = "http_error" THEN Append(lg, "create_block_failed") ELSE lg,
     raised    |-> response = "exception"]

\* The address imgbb answers with
HostedUrl == <<"u">>

\* upload_to_imgbb: the url, or None after printing what went wrong
upload_to_imgbb(lg, response) ==
    IF response = "ok" THEN [url |-> Some(HostedUrl), log |-> lg]
    ELSE IF response = "http_error" THEN [url |-> None, log |-> Append(lg, "upload_failed")]
    ELSE [url |-> None, log |-> Append(lg, "upload_error")]

\* _resolve_local_image: exists_given and exists_relative are the answers of
\* os.path.exists for the path as written and for the path joined to the
\* directory of the Markdown file.
resolve_local_image(lg, exists_given, exists_relative, response) ==
    IF ~exists_given /\ ~exists_relative
    THEN [url |-> None, log |-> Append(lg, "image_missing")]
    ELSE upload_to_imgbb(lg, response)

----------------------------------------------------------------------------
(* MarkdownParser.parse_and_upload *)

\* line.startswith(("# ", "## ", "### "))
IsHeading(s) ==
    \/ startswith(s, <<"#", " ">>)
    \/ startswith(s, <<"#", "#", " ">>)
    \/ startswith(s, <<"#", "#", "#", " ">>)

\* level = len(line.split()[0])
HeadingLevel(s) == Len(split0(s))

\* Mutant of HeadingText: line[level:], the space after the marker is kept
HeadingText_KeepsSpace(s) == SliceFrom(s, HeadingLevel(s))

\* line[level+1:]
HeadingText(s) == SliceFrom(s, HeadingLevel(s) + 1)

\* f"heading_{level}"
HeadingType(level) == "heading_" \o ToString(level)

\* re.match of the image pattern: "![" alt "](" target ")", both groups lazy
ImageMatch(s) ==
    IF ~startswith(s, <<"!", "[">>) THEN [matched |-> FALSE, alt |-> <<>>, target |-> <<>>]
    ELSE LET k == find(s, <<"]", "(">>, 2)
             e == IF k = -1 THEN -1 ELSE find(s, <<")">>, k + 2)
         IN  IF k = -1 \/ e = -1
             THEN [matched |-> FALSE, alt |-> <<>>, target |-> <<>>]
             ELSE [matched |-> TRUE, alt |-> Slice(s, 2, k), target |-> Slice(s, k + 2, e)]

IsRemote(image_path) == startswith(image_path, <<"h", "t", "t", "p">>)

\* The stripped line the loop is about to handle
Cur == strip(lines[pos + 1])

InLoop == pc = "loop" /\ pos < Len(lines)

\* lines 166-167
SkipBlank ==
    /\ InLoop
    /\ LET cur == Cur
       IN  /\ cur = <<>>
    /\ pos' = pos + 1
    /\ UNCHANGED <<lines, pc, current_equation, submitted, log>>
    /\ UNCHANGED <<text_vars, env_vars>>

\* lines 170-177
Heading ==
    /\ InLoop
    /\ LET cur == Cur
       IN  /\ cur # <<>>
           /\ IsHeading(cur)
           /\ \E response \in Responses :
                 LET r == create_block(submitted, log,
                              create_text_block(HeadingText(cur), HeadingType(HeadingLevel(cur))),
                              response)
                 IN  /\ submitted' = r.submitted
                     /\ log' = r.log
                     /\ pc' = IF r.raised THEN "raised" ELSE pc
    /\ pos' = pos + 1
    /\ UNCHANGED <<lines, current_equation>>
    /\ UNCHANGED <<text_vars, env_vars>>

\* lines 180-182, 188
EquationOpen ==
    /\ InLoop
    /\ LET cur == Cur
       IN  /\ cur # <<>>
           /\ ~IsHeading(cur)
           /\ cur = DD
           /\ current_equation = None
           /\ current_equation' = Some(<<>>)
    /\ pos' = pos + 1
    /\ UNCHANGED <<lines, pc, submitted, log>>
    /\ UNCHANGED <<text_vars, env_vars>>

\* lines 180, 183-188
EquationClose ==
    /\ InLoop
    /\ LET cur == Cur
       IN  /\ cur # <<>>
           /\ ~IsHeading(cur)
           /\ cur = DD
           /\ current_equation # None
           /\ \E response \in Responses :
                 LET r == create_block(submitted, log,
                              create_equation_block(join(<<"\n">>, current_equation[1])),
                              response)
                 IN  /\ submitted' = r.submitted
                     /\ log' = r.log
                     /\ pc' = IF r.raised THEN "raised" ELSE pc
                     /\ current_equation' = IF r.raised THEN current_equation ELSE None
    /\ pos' = pos + 1
    /\ UNCHANGED lines
    /\ UNCHANGED <<text_vars, env_vars>>

\* Mutant of EquationBody: the continue of line 192 is missing, so a buffered
\* line falls through and is submitted as a paragraph as well
EquationBody_FallsThrough ==
    /\ InLoop
    /\ LET cur == Cur
       IN  /\ cur # <<>>
           /\ ~IsHeading(cur)
           /\ cur # DD
           /\ current_equation # None
           /\ current_equation' = Some(Append(current_equation[1], cur))
           /\ \E response \in Responses :
                 LET r == create_block(submitted, log,
                              create_rich_text_block(process_text_block(cur)), response)
                 IN  /\ submitted' = r.submitted
                     /\ log' = r.log
                     /\ pc' = IF r.raised THEN "raised" ELSE pc
    /\ pos' = pos + 1
    /\ UNCHANGED lines
    /\ UNCHANGED <<text_vars, env_vars>>

\* lines 190-192
EquationBody ==
    /\ InLoop
    /\ LET cur == Cur
       IN  /\ cur # <<>>
           /\ ~IsHeading(cur)
           /\ cur # DD
           /\ current_equation # None
           /\ current_equation' = Some(Append(current_equation[1], cur))
    /\ pos' = pos + 1
    /\ UNCHANGED <<lines, pc, submitted, log>>
    /\ UNCHANGED <<text_vars, env_vars>>

\* Mutant of SubmitImage: the alt text is submitted whether or not there is an
\* image url
SubmitImage_CaptionAlways(sub, lg, image_url, alt_text, response1, response2) ==
    LET r1 == IF image_url = None \/ image_url[1] = <<>>
              THEN [submitted |-> sub, log |-> lg, raised |-> FALSE]
              ELSE create_block(sub, lg, create_image_block(image_url[1]), response1)
    IN  IF r1.raised \/ alt_text = <<>>
        THEN r1
        ELSE create_block(r1.submitted, r1.log, create_text_block(alt_text, "paragraph"),
                          response2)

\* lines 200-207: the blocks of an image line once image_url is known
SubmitImage(sub, lg, image_url, alt_text, response1, response2) ==
    IF image_url = None \/ image_url[1] = <<>>
    THEN [submitted |-> sub, log |-> lg, raised |-> FALSE]
    ELSE LET r1 == create_block(sub, lg, create_image_block(image_url[1]), response1)
         IN  IF r1.raised \/ alt_text = <<>>
             THEN r1
             ELSE create_block(r1.submitted, r1.log, create_text_block(alt_text, "paragraph"),
                               response2)

\* lines 197-198: what image_url can be, with what the run has printed by
\* then; exists_given and exists_relative range over what the file system can
\* answer and upload over what the image host can answer
ImageUrls(lg, image_path) ==
    IF IsRemote(image_path)
    THEN {[url |-> Some(image_path), log |-> lg]}
    ELSE {resolve_local_image(lg, exists_given, exists_relative, upload) :
              exists_given \in BOOLEAN, exists_relative \in BOOLEAN, upload \in Responses}

\* lines 195-208
Image ==
    /\ InLoop
    /\ LET cur == Cur
       IN  /\ cur # <<>>
           /\ ~IsHeading(cur)
           /\ cur # DD
           /\ current_equation = None
           /\ LET m == ImageMatch(cur)
              IN  /\ m.matched
                  /\ \E r \in UNION {{SubmitImage(submitted, resolved.log, resolved.url, m.alt,
                                                  response1, response2) :
                                          response1 \in Responses, response2 \in Responses} :
                                     resolved \in ImageUrls(log, m.target)} :
                        /\ submitted' = r.submitted
                        /\ log' = r.log
                        /\ pc' = IF r.raised THEN "raised" ELSE pc
    /\ pos' = pos + 1
    /\ UNCHANGED <<lines, current_equation>>
    /\ UNCHANGED <<text_vars, env_vars>>

\* lines 211-214
Paragraph ==
    /\ InLoop
    /\ LET cur == Cur
       IN  /\ cur # <<>>
           /\ ~IsHeading(cur)
           /\ cur # DD
           /\ current_equation = None
           /\ ~ImageMatch(cur).matched
           /\ \E response \in Responses :
                 LET r == create_block(submitted, log,
                              create_rich_text_block(process_text_block(cur)), response)
                 IN  /\ submitted' = r.submitted
                     /\ log' = r.log
                     /\ pc' = IF r.raised THEN "raised" ELSE pc
    /\ pos' = pos + 1
    /\ UNCHANGED <<lines, current_equation>>
    /\ UNCHANGED <<text_vars, env_vars>>

\* Mutant of Finish: an accumulator still open at the end of the file is flushed
Finish_Flushes ==
    /\ pc = "loop"
    /\ pos = Len(lines)
    /\ pc' = "done"
    /\ submitted' = IF current_equation = None THEN submitted
                    ELSE Append(submitted,
                                [block |-> create_equation_block(
                                               join(<<"\n">>, current_equation[1])),
                                 response |-> "ok"])
    /\ current_equation' = None
    /\ UNCHANGED <<lines, pos, log>>
    /\ UNCHANGED <<text_vars, env_vars>>

\* the for loop runs out of lines and parse_and_upload returns
Finish ==
    /\ pc = "loop"
    /\ pos = Len(lines)
    /\ pc' = "done"
    /\ UNCHANGED <<lines, pos, current_equation, submitted, log>>
    /\ UNCHANGED <<text_vars, env_vars>>

----------------------------------------------------------------------------
(* The files given to parse_and_upload: every sequence of at most MaxLines  *)
(* of these raw lines, each as readlines returns it.                        *)

LineTitle == <<"#", " ", "T", "i", "t", "l", "e", "\n">>
LineHeading2 == <<" ", "#", "#", " ", "a", " ", "\n">>
LineHeading3 == <<"#", "#", "#", " ", " ", "b", "\n">>
LineEmpty == <<"\n">>
LineSpaces == <<" ", "\t", "\n">>
LineDelimiter == <<" ", "$", "$", "\n">>
LineText == <<"S", "o", "m", "e", " ", "*", "*", "b", "o", "l", "d", "*", "*", " ",
              "a", "n", "d", " ", "$", "e", "=", "m", "c", "^", "2", "$", " ",
              "t", "e", "x", "t", ".", "\n">>
LineImageRemote == <<"!", "[", "]", "(", "h", "t", "t", "p", ")", "\n">>
LineImageLocal == <<"!", "[", "c", "]", "(", "p", ")", "\n">>

RawLines == {LineTitle, LineHeading2, LineHeading3, LineEmpty, LineSpaces, LineDelimiter,
             LineText, LineImageRemote, LineImageLocal}

Files == UNION {[1 .. n -> RawLines] : n \in 0 .. MaxLines}

ParserInit ==
    /\ lines \in Files
    /\ pos = 0
    /\ pc = "loop"
    /\ current_equation = None
    /\ submitted = <<>>
    /\ log = <<>>

----------------------------------------------------------------------------
(* Credentials: get_env_var of both tools and the start-up that calls it *)

\* md_to_notion.py get_env_var: var is os.getenv(var_name), None when unset
get_env_var(var) ==
    IF var = None \/ var[1] = <<>> \/ strip(var[1]) = <<>>
    THEN [raised |-> TRUE, value |-> <<>>]
    ELSE [raised |-> FALSE, value |-> strip(var[1])]

\* gpt.py get_env_var
gpt_get_env_var(var) ==
    IF var = None
    THEN [raised |-> TRUE, value |-> <<>>]
    ELSE [raised |-> FALSE, value |-> var[1]]

VarNames == {"NOTION_API_KEY", "IMGBB_API_KEY", "OPENAI_API_KEY"}

\* What the environment can hold for a variable: unset, empty, blank, a key,
\* a key with whitespace around it
EnvValues == {None, Some(<<>>), Some(<<" ", "\t">>), Some(<<"k">>), Some(<<" ", "k", "\n">>)}

EnvInit ==
    /\ environ \in [VarNames -> EnvValues]
    /\ upc = "start"
    /\ gpc = "import"
    /\ keys = [n \in VarNames |-> None]
    /\ requests = {}

\* md_to_notion.py line 232
MainNotionKey ==
    /\ upc = "start"
    /\ LET r == get_env_var(environ["NOTION_API_KEY"])
       IN  /\ upc' = IF r.raised THEN "fatal" ELSE "notion_ok"
           /\ keys' = IF r.raised THEN keys
                      ELSE [keys EXCEPT !["NOTION_API_KEY"] = Some(r.value)]
    /\ UNCHANGED <<environ, gpc, requests>>
    /\ UNCHANGED <<parser_vars, text_vars>>

\* md_to_notion.py lines 233-243
MainImgbbKey ==
    /\ upc = "notion_ok"
    /\ LET r == get_env_var(environ["IMGBB_API_KEY"])
       IN  /\ upc' = IF r.raised THEN "fatal" ELSE "ready"
           /\ keys' = IF r.raised THEN keys
                      ELSE [keys EXCEPT !["IMGBB_API_KEY"] = Some(r.value)]
    /\ UNCHANGED <<environ, gpc, requests>>
    /\ UNCHANGED <<parser_vars, text_vars>>

\* md_to_notion.py lines 30-40: a request of the document client carries its key
NotionRequest ==
    /\ upc = "ready"
    /\ requests' = requests \cup {[to |-> "notion", credential |-> keys["NOTION_API_KEY"]]}
    /\ UNCHANGED <<environ, upc, gpc, keys>>
    /\ UNCHANGED <<parser_vars, text_vars>>

\* md_to_notion.py lines 54-58: an upload carries the image host's key
ImgbbRequest ==
    /\ upc = "ready"
    /\ requests' = requests \cup {[to |-> "imgbb", credential |-> keys["IMGBB_API_KEY"]]}
    /\ UNCHANGED <<environ, upc, gpc, keys>>
    /\ UNCHANGED <<parser_vars, text_vars>>

\* gpt.py line 15, run when the module is loaded
GptLoadKey ==
    /\ gpc = "import"
    /\ LET r == gpt_get_env_var(environ["OPENAI_API_KEY"])
       IN  /\ gpc' = IF r.raised THEN "fatal" ELSE "loaded"
           /\ keys' = IF r.raised THEN keys
                      ELSE [keys EXCEPT !["OPENAI_API_KEY"] = Some(r.value)]
    /\ UNCHANGED <<environ, upc, requests>>
    /\ UNCHANGED <<parser_vars, text_vars>>

\* gpt.py lines 22-26: chat_with_gpt sends the key it loaded
GptRequest ==
    /\ gpc = "loaded"
    /\ requests' = requests \cup {[to |-> "openai", credential |-> keys["OPENAI_API_KEY"]]}
    /\ UNCHANGED <<environ, upc, gpc, keys>>
    /\ UNCHANGED <<parser_vars, text_vars>>

----------------------------------------------------------------------------
(* Specifications *)

ParserIdle ==
    /\ lines = <<>>
    /\ pos = 0
    /\ pc = "idle"
    /\ current_equation = None
    /\ submitted = <<>>
    /\ log = <<>>

EnvIdle ==
    /\ environ = <<>>
    /\ upc = "idle"
    /\ gpc = "idle"
    /\ keys = <<>>
    /\ requests = {}

Init == ParserInit /\ TextIdle /\ EnvIdle

Next ==
    \/ SkipBlank
    \/ Heading
    \/ EquationOpen
    \/ EquationClose
    \/ EquationBody
    \/ Image
    \/ Paragraph
    \/ Finish

Spec == Init /\ [][Next]_vars

TextNext == TextMatch \/ TextReturn

InitText == TextInit /\ ParserIdle /\ EnvIdle

SpecText == InitText /\ [][TextNext]_vars

EnvNext ==
    \/ MainNotionKey
    \/ MainImgbbKey
    \/ NotionRequest
    \/ ImgbbRequest
    \/ GptLoadKey
    \/ GptRequest

InitEnv == EnvInit /\ ParserIdle /\ TextIdle

SpecEnv == InitEnv /\ [][EnvNext]_vars

----------------------------------------------------------------------------
(* Claims about process_text_block *)

\* The text a span stands for, with the delimiters the parser stripped put back
SpanSource(p) ==
    IF p.type = "equation" THEN D \o p.expression \o D
    ELSE IF p.bold THEN SS \o p.content \o SS
    ELSE p.content

RECURSIVE Rebuild(_)
Rebuild(ps) == IF ps = <<>> THEN <<>> ELSE SpanSource(Head(ps)) \o Rebuild(Tail(ps))

\* C5: the spans process_text_block returns, in order, with the "$" delimiters
\* put back around every equation span and the "**" delimiters around every
\* bold span, concatenate to the input line; while the scan runs the spans
\* built so far concatenate to the part of the line already consumed.
C5_SpansReconstructLine ==
    /\ tpc = "scan" => Rebuild(parts) = Slice(line, 0, last_end)
    /\ tpc = "returned" => Rebuild(parts) = line

\* C5 witness: a returned line that produced an equation span, a bold span
\* and a plain span.
C5_Witness ==
    /\ tpc = "returned"
    /\ \E i \in 1 .. Len(parts) : parts[i].type = "equation"
    /\ \E i \in 1 .. Len(parts) : parts[i].type = "text" /\ parts[i].bold
    /\ \E i \in 1 .. Len(parts) : parts[i].type = "text" /\ ~parts[i].bold

\* The matches of the span pattern in s from offset from, in order
RECURSIVE Matches(_, _)
Matches(s, from) ==
    LET m == NextMatch(s, from)
    IN  IF m.alt = 0 THEN <<>> ELSE <<m>> \o Matches(s, m.end)

RECURSIVE SelectSeqBy(_, _)
SelectSeqBy(ps, keep) ==
    IF ps = <<>> THEN <<>>
    ELSE (IF Head(ps) \in keep THEN <<Head(ps)>> ELSE <<>>) \o SelectSeqBy(Tail(ps), keep)

InlineMatches(s) ==
    LET ms == Matches(s, 0)
    IN  SelectSeqBy(ms, {ms[i] : i \in {j \in 1 .. Len(ms) : ms[j].alt = 2}})

EquationSpansOf(ps) ==
    SelectSeqBy(ps, {ps[i] : i \in {j \in 1 .. Len(ps) : ps[j].type = "equation"}})

\* C6: every substring matched by the inline-equation alternative becomes an
\* equation span whose expression is the match without its two "$": the
\* equation spans returned are, in order, the inline matches of the line with
\* their delimiters stripped.
C6_InlineMatchIsEquation ==
    tpc = "returned" =>
        /\ Len(EquationSpansOf(parts)) = Len(InlineMatches(line))
        /\ \A i \in 1 .. Len(InlineMatches(line)) :
              EquationSpansOf(parts)[i] =
                  EquationSpan(Slice(line, InlineMatches(line)[i].start + 1,
                                           InlineMatches(line)[i].end - 1))

----------------------------------------------------------------------------
(* Claims about parse_and_upload.  They are stated on the file and on what  *)
(* each step of the loop adds to the calls the document client received.    *)

\* line i of the file, trimmed
Trimmed(i) == strip(lines[i])

\* the number of "#" characters s begins with
RECURSIVE Hashes(_)
Hashes(s) == IF s # <<>> /\ Head(s) = "#" THEN 1 + Hashes(Tail(s)) ELSE 0

\* s begins with one, two or three "#" followed by a space
IsHeadingLine(s) ==
    /\ Hashes(s) \in 1 .. 3
    /\ Len(s) > Hashes(s)
    /\ s[Hashes(s) + 1] = " "

ExpectedHeadingType(n) ==
    CASE n = 1 -> "heading_1" [] n = 2 -> "heading_2" [] n = 3 -> "heading_3"

IsDelimiterLine(i) == Trimmed(i) = DD

DelimitersBefore(i) == Cardinality({k \in 1 .. i - 1 : IsDelimiterLine(k)})

\* line i closes the block equation the delimiter line before it opened
Closing(i) == IsDelimiterLine(i) /\ DelimitersBefore(i) % 2 = 1

OpenerOf(i) ==
    CHOOSE o \in 1 .. i - 1 : IsDelimiterLine(o) /\ \A k \in o + 1 .. i - 1 : ~IsDelimiterLine(k)

\* line i lies between an opening delimiter and the delimiter that closes it
Inside(i) ==
    /\ ~IsDelimiterLine(i)
    /\ DelimitersBefore(i) % 2 = 1
    /\ \E c \in i + 1 .. Len(lines) : IsDelimiterLine(c)

\* the trimmed lines o+1 .. c-1 that are not blank
RECURSIVE LinesBetween(_, _)
LinesBetween(o, c) ==
    IF o + 1 >= c THEN <<>>
    ELSE (IF Trimmed(o + 1) = <<>> THEN <<>> ELSE <<Trimmed(o + 1)>>) \o LinesBetween(o + 1, c)

\* the trimmed lines o+1 .. c-1 that are neither blank nor heading lines
RECURSIVE BodyBetween(_, _)
BodyBetween(o, c) ==
    IF o + 1 >= c THEN <<>>
    ELSE (IF Trimmed(o + 1) = <<>> \/ IsHeadingLine(Trimmed(o + 1))
          THEN <<>> ELSE <<Trimmed(o + 1)>>) \o BodyBetween(o + 1, c)

BlocksOf(calls) == [k \in 1 .. Len(calls) |-> calls[k].block]

\* a step of the loop: line pos + 1 is handled
LineStep == pos' = pos + 1

\* the blocks the step submits, and what it prints
NewBlocks == BlocksOf(SubSeq(submitted', Len(submitted) + 1, Len(submitted')))
NewLog == SubSeq(log', Len(log) + 1, Len(log'))

C2_FailureNeverStops ==
    (\E k \in 1 .. Len(submitted) : submitted[k].response # "ok") => pc \in {"loop", "done"}

\* C3 as stated: every non-empty line submits at most one block, every heading
\* line exactly one.
C3_AtMostOneBlock ==
    [][(LineStep /\ Trimmed(pos + 1) # <<>>) =>
        /\ Len(NewBlocks) <= 1
        /\ IsHeadingLine(Trimmed(pos + 1)) => Len(NewBlocks) = 1]_vars

\* C3 amended: every non-empty line submits at most one block, except an image
\* line with non-empty alt text, which submits at most two: the image block,
\* then a paragraph block holding the alt text; every heading line submits
\* exactly one block.
C3_AtMostOneBlockButCaption ==
    [][(LineStep /\ Trimmed(pos + 1) # <<>>) =>
        /\ Len(NewBlocks) <= 2
        /\ Len(NewBlocks) = 2 =>
              /\ ImageMatch(Trimmed(pos + 1)).matched
              /\ ImageMatch(Trimmed(pos + 1)).alt # <<>>
              /\ NewBlocks[1].type = "image"
              /\ NewBlocks[2] = create_text_block(ImageMatch(Trimmed(pos + 1)).alt, "paragraph")
        /\ IsHeadingLine(Trimmed(pos + 1)) => Len(NewBlocks) = 1]_vars

\* C3 witness: an image line with alt text submitted two blocks, a heading
\* line one.
C3_Witness ==
    /\ pc = "done"
    /\ Len(lines) = 2
    /\ IsHeadingLine(Trimmed(1))
    /\ ImageMatch(Trimmed(2)).matched
    /\ Len(submitted) = 3
    /\ submitted[2].block.type = "image"
    /\ submitted[3].block.type = "paragraph"

\* C4: a trimmed line that begins with one, two or three "#" and a space
\* submits a heading block whose level is the number of "#" and whose text is
\* the rest of the line after the marker and the space.
C4_HeadingLevelAndText ==
    [][(LineStep /\ IsHeadingLine(Trimmed(pos + 1))) =>
        NewBlocks = <<[object |-> "block",
                       type |-> ExpectedHeadingType(Hashes(Trimmed(pos + 1))),
                       rich_text |-> <<PlainSpan(SliceFrom(Trimmed(pos + 1),
                                                           Hashes(Trimmed(pos + 1)) + 1))>>]>>]_vars

\* C4 witness: headings of the three levels were submitted, with the text of
\* the level 2 heading trimmed and that of the level 3 heading keeping its
\* second space.
C4_Witness ==
    /\ Len(submitted) = 3
    /\ submitted[1].block = create_text_block(<<"T", "i", "t", "l", "e">>, "heading_1")
    /\ submitted[2].block = create_text_block(<<"a">>, "heading_2")
    /\ submitted[3].block = create_text_block(<<" ", "b">>, "heading_3")

AllDelimiters == Cardinality({k \in 1 .. Len(lines) : IsDelimiterLine(k)})

LastDelimiter ==
    CHOOSE o \in 1 .. Len(lines) :
        IsDelimiterLine(o) /\ \A k \in o + 1 .. Len(lines) : ~IsDelimiterLine(k)

\* C8: at most one accumulator is active at any time; when the file ends with
\* a delimiter still open, the run returns with the lines after it still in
\* the accumulator and no equation block submitted for them (the equation
\* blocks are those of the closed pairs); nothing but an exception of
\* create_block ends the run abnormally.
C8_UnterminatedDiscarded ==
    /\ Len(current_equation) <= 1
    /\ (pc = "done" /\ AllDelimiters % 2 = 1) =>
          /\ current_equation = Some(BodyBetween(LastDelimiter, Len(lines) + 1))
          /\ Cardinality({k \in 1 .. Len(submitted) : submitted[k].block.type = "equation"})
                 = AllDelimiters \div 2
    /\ pc = "raised" =>
          /\ submitted # <<>>
          /\ submitted[Len(submitted)].response = "exception"

\* C8 witness: the run returned with lines buffered after an open delimiter.
C8_Witness ==
    /\ pc = "done"
    /\ current_equation # None
    /\ current_equation[1] # <<>>
    /\ submitted = <<>>

\* the step handles line pos + 1 as an image line whose target is local
LocalImageStep ==
    /\ LineStep
    /\ Trimmed(pos + 1) # <<>>
    /\ ~IsHeadingLine(Trimmed(pos + 1))
    /\ ~IsDelimiterLine(pos + 1)
    /\ DelimitersBefore(pos + 1) % 2 = 0
    /\ ImageMatch(Trimmed(pos + 1)).matched
    /\ ~startswith(ImageMatch(Trimmed(pos + 1)).target, <<"h", "t", "t", "p">>)

ImageFailures == {"image_missing", "upload_failed", "upload_error"}

\* C9: when the file of a local image line is found at neither path, or its
\* upload fails, the line submits no block (neither image nor alt text), no
\* exception leaves the loop and the loop goes on to the next line.
C9_FailedImageSkipped ==
    [][(LocalImageStep /\ \E k \in 1 .. Len(NewLog) : NewLog[k] \in ImageFailures) =>
        /\ submitted' = submitted
        /\ pc' = "loop"]_vars

\* C9 witness: a run returned after a missing file, a refused upload and an
\* upload that raised, with nothing submitted.
C9_Witness ==
    /\ pc = "done"
    /\ log = <<"image_missing", "upload_failed", "upload_error">>
    /\ submitted = <<>>

ExampleFile == <<LineTitle, LineEmpty, LineText>>

ExampleBlocks ==
    <<create_text_block(<<"T", "i", "t", "l", "e">>, "heading_1"),
      create_rich_text_block(
          <<PlainSpan(<<"S", "o", "m", "e", " ">>),
            BoldSpan(<<"b", "o", "l", "d">>),
            PlainSpan(<<" ", "a", "n", "d", " ">>),
            EquationSpan(<<"e", "=", "m", "c", "^", "2">>),
            PlainSpan(<<" ", "t", "e", "x", "t", ".">>)>>)>>

\* C10: the lines are handled one at a time in file order and blocks are only
\* ever added after those already submitted, so the blocks of an earlier line
\* precede those of a later one; a blank line submits nothing and leaves the
\* accumulator alone; the run over the example file returns with exactly the
\* heading block and the paragraph block of five spans.
C10_FileOrder ==
    [][/\ pos' = pos \/ pos' = pos + 1
       /\ Len(submitted') >= Len(submitted)
       /\ SubSeq(submitted', 1, Len(submitted)) = submitted
       /\ submitted' # submitted => LineStep
       /\ (LineStep /\ Trimmed(pos + 1) = <<>>) =>
             /\ submitted' = submitted
             /\ current_equation' = current_equation
       /\ (lines = ExampleFile /\ pc' = "done") => BlocksOf(submitted') = ExampleBlocks]_vars

\* C10 witness: the run over the example file returned.
C10_Witness ==
    /\ lines = ExampleFile
    /\ pc = "done"
    /\ Len(submitted) = 2

----------------------------------------------------------------------------
(* Claims about the credentials *)

IsBlank(credential) == credential = None \/ strip(credential[1]) = <<>>

\* C7: both tools stop at start-up on a credential that is absent or blank,
\* so no request of either tool carries an absent or blank credential.
C7_NoBlankCredential ==
    \A r \in requests : ~IsBlank(r.credential)

====
